---------------------------- MODULE Spec2Model ----------------------------
(***************************************************************************)
(* Model of the from_env crate (src/src/lib.rs): the `.env` extractor, the *)
(* command-line extractor, the precedence merge, the scalar coercion and   *)
(* the final structured decoding into the caller's type.                   *)
(*                                                                         *)
(* A Rust String is a sequence of one-character strings, so that trimming, *)
(* splitting, prefix tests and number parsing are computed character by    *)
(* character as the code does.  A BTreeMap<String, String> is a function   *)
(* from its key set to its values.                                         *)
(***************************************************************************)
EXTENDS Integers, Sequences, FiniteSets, TLC

VARIABLES
    pc,          \* position of the call in progress
    dotenvFile,  \* the `.env` file: [state, content]; state is "ok", "missing" or "unreadable"
    argv,        \* the process arguments as the OS holds them, program name first
    target,      \* the caller's type T (a name in TargetTypes)
    dotenv,      \* kv_from_dotenv_and_env: `dotenv`, the file mapping
    args,        \* kv_from_env: `args`, the collected tokens
    ai,          \* kv_from_env: index of the next token the loop takes
    kv,          \* kv_from_env: `kv`
    kcache,      \* kv_from_env: `kcache` (Option<String>)
    merged,      \* the mapping kv_from_dotenv_and_env returns
    value,       \* the serde_json::Value kv_to_json_value returns
    result,      \* what from_env returns
    v,           \* v_to_json_value / the filter_map closure: the input string
    ret          \* v_to_json_value / the filter_map closure: the returned value

vars == <<pc, dotenvFile, argv, target, dotenv, args, ai, kv,
          kcache, merged, value, result, v, ret>>

(***************************************************************************)
(* Bounds of the model.                                                    *)
(***************************************************************************)
MaxNumLen == 5      \* longest string enumerated over NumAlphabet
MaxLineLen == 5     \* longest string enumerated over LineAlphabet
MaxArgs == 3        \* longest argument list of the argument-scan specification
MaxLines == 2       \* most lines in a file of the file-extractor specification
MaxPipeArgs == 2    \* longest argument list of the end-to-end specification
MaxPipeLines == 2   \* most lines in a file of the end-to-end specification

(***************************************************************************)
(* Option<T> and the empty map.                                            *)
(***************************************************************************)
None == [some |-> FALSE]
Some(x) == [some |-> TRUE, val |-> x]

EmptyMap == [k \in {} |-> <<>>]

\* BTreeMap::insert: the key is added, or its value replaced.
Insert(m, k, x) == [j \in (DOMAIN m) \cup {k} |-> IF j = k THEN x ELSE m[j]]

\* All sequences over S of length at most n.
SeqsUpTo(S, n) == UNION {[1..m -> S] : m \in 0..n}

(***************************************************************************)
(* str helpers.                                                            *)
(***************************************************************************)
SQ == "'"
DQ == "\""

\* char::is_whitespace, for the whitespace characters the model's inputs use.
Whitespace == {" ", "\t", "\r", "\n"}

RECURSIVE DropWhile(_, _)
DropWhile(s, C) ==
    IF s # <<>> /\ Head(s) \in C THEN DropWhile(Tail(s), C) ELSE s

RECURSIVE DropWhileEnd(_, _)
DropWhileEnd(s, C) ==
    IF s # <<>> /\ s[Len(s)] \in C
    THEN DropWhileEnd(SubSeq(s, 1, Len(s) - 1), C)
    ELSE s

\* str::trim: leading and trailing whitespace removed.
Trim(s) == DropWhileEnd(DropWhile(s, Whitespace), Whitespace)

\* Variant of trim_matches: one c removed at each end, and only as a pair.
TrimMatches_OnePair(s, c) ==
    IF Len(s) >= 2 /\ s[1] = c /\ s[Len(s)] = c THEN SubSeq(s, 2, Len(s) - 1) ELSE s

\* str::trim_matches(c): EVERY leading and EVERY trailing c removed.
TrimMatches(s, c) == DropWhileEnd(DropWhile(s, {c}), {c})

\* str::starts_with.
StartsWith(s, p) == Len(s) >= Len(p) /\ SubSeq(s, 1, Len(p)) = p

\* str::split(c).collect(): the pieces between the occurrences of c
\* (n occurrences give n + 1 pieces, empty pieces included).
RECURSIVE SplitFrom(_, _, _)
SplitFrom(s, c, cur) ==
    IF s = <<>> THEN <<cur>>
    ELSE IF Head(s) = c THEN <<cur>> \o SplitFrom(Tail(s), c, <<>>)
    ELSE SplitFrom(Tail(s), c, Append(cur, Head(s)))

Split(s, c) == SplitFrom(s, c, <<>>)

\* str::lines: split at "\n", a "\r" right before the "\n" removed, and no
\* empty last line after a final "\n".
StripCR(l) ==
    IF l # <<>> /\ l[Len(l)] = "\r" THEN SubSeq(l, 1, Len(l) - 1) ELSE l

StrLines(s) ==
    LET ps == Split(s, "\n")
        n == Len(ps)
    IN  [j \in 1..(IF ps[n] = <<>> THEN n - 1 ELSE n) |->
            IF j < n THEN StripCR(ps[j]) ELSE ps[j]]

(***************************************************************************)
(* Number parsing (str::parse::<u64>, ::<i64>, ::<f64>).  A parsed integer *)
(* is kept as its decimal digits without leading zeros, so that 64-bit     *)
(* range tests are exact.                                                  *)
(***************************************************************************)
Digits == {"0", "1", "2", "3", "4", "5", "6", "7", "8", "9"}

DigitVal(c) ==
    CASE c = "0" -> 0 [] c = "1" -> 1 [] c = "2" -> 2 [] c = "3" -> 3
      [] c = "4" -> 4 [] c = "5" -> 5 [] c = "6" -> 6 [] c = "7" -> 7
      [] c = "8" -> 8 [] c = "9" -> 9

AllDigits(s) == \A j \in 1..Len(s) : s[j] \in Digits

\* The digits of a number without its leading zeros (<<"0">> for zero).
Normalize(ds) ==
    LET r == DropWhile(ds, {"0"}) IN IF r = <<>> THEN <<"0">> ELSE r

\* a <= b for two normalized digit strings.
RECURSIVE LexLE(_, _)
LexLE(a, b) ==
    IF a = <<>> THEN TRUE
    ELSE IF DigitVal(Head(a)) # DigitVal(Head(b))
         THEN DigitVal(Head(a)) < DigitVal(Head(b))
         ELSE LexLE(Tail(a), Tail(b))

DigitsLE(a, b) == Len(a) < Len(b) \/ (Len(a) = Len(b) /\ LexLE(a, b))

U64Max == <<"1", "8", "4", "4", "6", "7", "4", "4", "0", "7", "3", "7", "0", "9",
            "5", "5", "1", "6", "1", "5">>
I64Max == <<"9", "2", "2", "3", "3", "7", "2", "0", "3", "6", "8", "5", "4", "7",
            "7", "5", "8", "0", "7">>
I64MinAbs == <<"9", "2", "2", "3", "3", "7", "2", "0", "3", "6", "8", "5", "4", "7",
               "7", "5", "8", "0", "8">>

Err == [ok |-> FALSE]

\* v.parse::<u64>(): an optional "+", then one or more digits, at most u64::MAX.
ParseU64(s) ==
    LET ds == IF s # <<>> /\ Head(s) = "+" THEN Tail(s) ELSE s
    IN  IF ds # <<>> /\ AllDigits(ds) /\ DigitsLE(Normalize(ds), U64Max)
        THEN [ok |-> TRUE, neg |-> FALSE, digits |-> Normalize(ds)]
        ELSE Err

\* v.parse::<i64>(): an optional "+" or "-", then one or more digits, within
\* i64::MIN ..= i64::MAX.
ParseI64(s) ==
    LET signed == s # <<>> /\ Head(s) \in {"+", "-"}
        minus == s # <<>> /\ Head(s) = "-"
        ds == IF signed THEN Tail(s) ELSE s
        n == Normalize(ds)
    IN  IF ds # <<>> /\ AllDigits(ds)
           /\ DigitsLE(n, IF minus THEN I64MinAbs ELSE I64Max)
        THEN [ok |-> TRUE, neg |-> minus /\ n # <<"0">>, digits |-> n]
        ELSE Err


RECURSIVE TakeWhile(_, _)
TakeWhile(s, C) ==
    IF s # <<>> /\ Head(s) \in C THEN <<Head(s)>> \o TakeWhile(Tail(s), C) ELSE <<>>

\* The letters of the f64 words, lowercased (the f64 grammar is matched
\* case-insensitively).
Lower(c) ==
    CASE c = "I" -> "i" [] c = "N" -> "n" [] c = "F" -> "f" [] c = "A" -> "a"
      [] c = "T" -> "t" [] c = "Y" -> "y" [] c = "E" -> "e" [] OTHER -> c

LowerStr(s) == [j \in 1..Len(s) |-> Lower(s[j])]

RECURSIVE DigitsToNat(_)
DigitsToNat(ds) ==
    IF ds = <<>> THEN 0
    ELSE 10 * DigitsToNat(SubSeq(ds, 1, Len(ds) - 1)) + DigitVal(ds[Len(ds)])

\* An exponent's value; beyond four digits it is far outside f64's range
\* either way and is kept as 10000.
ExpVal(ds) == IF Len(Normalize(ds)) > 4 THEN 10000 ELSE DigitsToNat(Normalize(ds))

\* The first digits of 2^1024 - 2^970, the least magnitude that rounds to
\* an infinity: 1.7976931348623158079...e308.
F64Half == <<"1", "7", "9", "7", "6", "9", "3", "1", "3", "4", "8", "6", "2", "3",
             "1", "5", "8", "0", "7", "9">>

PadTo(ds, n) == [j \in 1..n |-> IF j <= Len(ds) THEN ds[j] ELSE "0"]

\* v.parse::<f64>(): Sign? ( 'inf' | 'infinity' | 'nan' | Number ), with
\* Number ::= ( Digit+ | Digit+ '.' Digit* | Digit* '.' Digit+ ) Exp? and
\* Exp ::= 'e' Sign? Digit+.  A number is kept as its decimal value
\* mant[1].mant[2..] * 10^e (mant without leading or trailing zeros, empty
\* for zero); a magnitude that rounds beyond f64::MAX parses to an infinity.
ParseF64(s) ==
    LET signed == s # <<>> /\ Head(s) \in {"+", "-"}
        minus == s # <<>> /\ Head(s) = "-"
        body == IF signed THEN Tail(s) ELSE s
        low == LowerStr(body)
        int == TakeWhile(body, Digits)
        r1 == SubSeq(body, Len(int) + 1, Len(body))
        hasDot == r1 # <<>> /\ Head(r1) = "."
        r2 == IF hasDot THEN Tail(r1) ELSE r1
        frac == IF hasDot THEN TakeWhile(r2, Digits) ELSE <<>>
        r3 == SubSeq(r2, Len(frac) + 1, Len(r2))
        hasExp == r3 # <<>> /\ Head(r3) \in {"e", "E"}
        r4 == IF hasExp THEN Tail(r3) ELSE r3
        expSigned == hasExp /\ r4 # <<>> /\ Head(r4) \in {"+", "-"}
        expMinus == expSigned /\ Head(r4) = "-"
        expDs == IF expSigned THEN Tail(r4) ELSE r4
        okNum == /\ Len(int) + Len(frac) >= 1
                 /\ IF hasExp THEN expDs # <<>> /\ AllDigits(expDs) ELSE r3 = <<>>
        exp == IF hasExp THEN (IF expMinus THEN 0 - ExpVal(expDs) ELSE ExpVal(expDs))
               ELSE 0
        all == int \o frac
        lead == DropWhile(all, {"0"})
        mant == DropWhileEnd(lead, {"0"})
        e == exp + Len(int) - 1 - (Len(all) - Len(lead))
        overflow == /\ mant # <<>>
                    /\ \/ e > 308
                       \/ e = 308 /\ ~LexLE(PadTo(mant, Len(F64Half)), F64Half)
    IN  IF low \in {<<"i", "n", "f">>, <<"i", "n", "f", "i", "n", "i", "t", "y">>}
        THEN [ok |-> TRUE, kind |-> "inf", neg |-> minus]
        ELSE IF low = <<"n", "a", "n">>
        THEN [ok |-> TRUE, kind |-> "nan", neg |-> minus]
        ELSE IF okNum /\ overflow
        THEN [ok |-> TRUE, kind |-> "inf", neg |-> minus]
        ELSE IF okNum
        THEN [ok |-> TRUE, kind |-> "num", neg |-> minus, mant |-> mant,
              e |-> IF mant = <<>> THEN 0 ELSE e]
        ELSE Err

\* v.parse::<bool>(): exactly "true" or "false".
ParseBool(s) ==
    IF s = <<"t", "r", "u", "e">> THEN [ok |-> TRUE, b |-> TRUE]
    ELSE IF s = <<"f", "a", "l", "s", "e">> THEN [ok |-> TRUE, b |-> FALSE]
    ELSE Err

(***************************************************************************)
(* serde_json::Value, the variants the crate builds.                       *)
(***************************************************************************)
ValueBool(b) == [tag |-> "Bool", b |-> b]
ValueString(s) == [tag |-> "String", s |-> s]
\* serde_json::Number::from(u64) and ::from(i64): PosInt, or NegInt below zero.
NumberFromInt(p) ==
    [tag |-> "Number", kind |-> IF p.neg THEN "NegInt" ELSE "PosInt", digits |-> p.digits]
\* serde_json::Number::from_f64: None unless the float is finite.
NumberFromF64(p) ==
    IF p.kind = "num"
    THEN Some([tag |-> "Number", kind |-> "Float", neg |-> p.neg, mant |-> p.mant, e |-> p.e])
    ELSE None

\* Variant of v_to_json_value: from_f64's None is not looked at, so an f64
\* that is not finite becomes a Number too.
v_to_json_value_NoFiniteCheck(s) ==
    IF ParseBool(s).ok THEN ValueBool(ParseBool(s).b)
    ELSE IF ParseU64(s).ok THEN NumberFromInt(ParseU64(s))
    ELSE IF ParseI64(s).ok THEN NumberFromInt(ParseI64(s))
    ELSE IF ParseF64(s).ok
    THEN IF NumberFromF64(ParseF64(s)).some
         THEN NumberFromF64(ParseF64(s)).val
         ELSE [tag |-> "Number", kind |-> "Float", neg |-> ParseF64(s).neg,
               mant |-> <<>>, e |-> 0]
    ELSE ValueString(s)

v_to_json_value(s) ==
    IF ParseBool(s).ok THEN ValueBool(ParseBool(s).b)
    ELSE IF ParseU64(s).ok THEN NumberFromInt(ParseU64(s))
    ELSE IF ParseI64(s).ok THEN NumberFromInt(ParseI64(s))
    ELSE IF ParseF64(s).ok
    THEN IF NumberFromF64(ParseF64(s)).some
         THEN NumberFromF64(ParseF64(s)).val
         ELSE ValueString(s)
    ELSE ValueString(s)

(***************************************************************************)
(* kv_from_dotenv: the closure given to filter_map.                        *)
(***************************************************************************)
\* Variant of the closure: a line with more than one "=" is cut at its
\* first two pieces instead of being skipped.
FilterMapLine_FirstTwoPieces(l) ==
    LET trimmed == Trim(l)
        split_eq == Split(trimmed, "=")
    IN  IF trimmed = <<>> \/ Len(split_eq) < 2
        THEN None
        ELSE LET key == Trim(split_eq[1])
                 val == TrimMatches(TrimMatches(Trim(split_eq[2]), SQ), DQ)
             IN  IF key = <<>> \/ val = <<>>
                 THEN None
                 ELSE Some(<<key, val>>)

FilterMapLine(l) ==
    LET trimmed == Trim(l)
        split_eq == Split(trimmed, "=")
    IN  IF trimmed = <<>> \/ Len(split_eq) # 2
        THEN None
        ELSE LET key == Trim(split_eq[1])
                 val == TrimMatches(TrimMatches(Trim(split_eq[2]), SQ), DQ)
             IN  IF key = <<>> \/ val = <<>>
                 THEN None
                 ELSE Some(<<key, val>>)

\* .lines().filter_map(closure).collect(): the pairs are inserted in line
\* order, so a later line replaces an earlier line's value for the same key.
RECURSIVE CollectLines(_, _)
CollectLines(ls, m) ==
    IF ls = <<>> THEN m
    ELSE LET r == FilterMapLine(Head(ls))
         IN  CollectLines(Tail(ls),
                          IF r.some THEN Insert(m, r.val[1], r.val[2]) ELSE m)

\* Variant of kv_from_dotenv: the read error is not looked at and whatever
\* the file holds is parsed.
kv_from_dotenv_IgnoresReadError(file) ==
    CollectLines(StrLines(file.content), EmptyMap)

kv_from_dotenv(file) ==
    IF file.state # "ok"
    THEN EmptyMap                                 \* read_to_string gave Err
    ELSE CollectLines(StrLines(file.content), EmptyMap)

(***************************************************************************)
(* kv_from_env: the pieces of the scan loop.                               *)
(***************************************************************************)
TrueStr == <<"t", "r", "u", "e">>

\* a[2..].trim_matches('\'').trim_matches('"')
KeyOfArg(a) == TrimMatches(TrimMatches(SubSeq(a, 3, Len(a)), SQ), DQ)

\* a.as_str().trim_matches('\'').trim_matches('"')
ValueOfArg(a) == TrimMatches(TrimMatches(a, SQ), DQ)

\* Variant of KvAfterKey: a pending key with no value is forgotten.
KvAfterKey_NoFlag(m, k) == m

\* kv after a `--` token: the pending key, if any, is committed as a flag.
KvAfterKey(m, k) == IF k.some THEN Insert(m, k.val, TrueStr) ELSE m

\* Variant of KvAfterValue: a value without a key is kept under the empty key.
KvAfterValue_KeepsOrphan(m, k, a) ==
    IF k.some THEN Insert(m, k.val, TrimMatches(TrimMatches(a, SQ), DQ))
    ELSE Insert(m, <<>>, TrimMatches(TrimMatches(a, SQ), DQ))

\* kv after a value token: the pending key, if any, takes the value;
\* a value without a key is ignored.
KvAfterValue(m, k, a) == IF k.some THEN Insert(m, k.val, ValueOfArg(a)) ELSE m

\* kcache after a value token: k was taken and nothing is put back.
KcacheAfterValue(k) == None

\* for (k, v) in env { dotenv.insert(k, v); }
RECURSIVE InsertAll(_, _)
InsertAll(m, e) ==
    IF DOMAIN e = {} THEN m
    ELSE LET k == CHOOSE j \in DOMAIN e : TRUE
         IN  InsertAll(Insert(m, k, e[k]), [j \in (DOMAIN e) \ {k} |-> e[j]])

\* Variant of the merge: the file's values are inserted over the arguments'.
kv_from_dotenv_and_env_FileWins(file_kv, env_kv) == InsertAll(env_kv, file_kv)

kv_from_dotenv_and_env(file_kv, env_kv) == InsertAll(file_kv, env_kv)

kv_to_json_value(m) == [k \in DOMAIN m |-> v_to_json_value(m[k])]

(***************************************************************************)
(* The caller's type T and serde_json::from_value::<T>.  A type is a       *)
(* function from field name to [ty, default]; `default` is the value of    *)
(* #[serde(default = ...)], or None for a required field.                  *)
(***************************************************************************)
S_cred_file == <<"c", "r", "e", "d", "_", "f", "i", "l", "e">>
S_server_url == <<"s", "e", "r", "v", "e", "r", "_", "u", "r", "l">>
S_retries == <<"r", "e", "t", "r", "i", "e", "s">>
S_port == <<"p", "o", "r", "t">>

\* fn cred_file() and fn server_url() of the crate documentation.
cred_file == <<"c", "r", "e", "d", "e", "n", "t", "i", "a", "l", "s", ".", "j", "s", "o", "n">>
server_url == <<"1", "2", "7", ".", "0", ".", "0", ".", "1", ":", "8", "0", "8", "0">>

TargetTypes == {"Constants", "Settings", "Server"}

Field(ty, default) == [ty |-> ty, default |-> default]

TypeOf(T) ==
    CASE T = "Constants" ->
            (S_cred_file :> Field("String", Some(cred_file)))
            @@ (S_server_url :> Field("String", Some(server_url)))
      [] T = "Settings" ->
            (S_cred_file :> Field("String", Some(cred_file)))
            @@ (S_retries :> Field("u64", Some(<<"0">>)))
      [] T = "Server" ->
            (S_port :> Field("u64", None))

\* Variant of DecodeField: a String field takes any scalar.
DecodeField_Lenient(ty, x) ==
    IF ty = "String"
    THEN Some(IF x.tag = "String" THEN x.s ELSE <<>>)
    ELSE IF x.tag = "Number" /\ x.kind = "PosInt" THEN Some(x.digits) ELSE None

\* Deserialize one field of type ty from a Value: a String field takes only
\* Value::String, a u64 field only a non-negative integer Number.
DecodeField(ty, x) ==
    IF ty = "String"
    THEN IF x.tag = "String" THEN Some(x.s) ELSE None
    ELSE IF x.tag = "Number" /\ x.kind = "PosInt" THEN Some(x.digits) ELSE None

\* Variant of MissingField: the type's Default::default() instead of the
\* declared default.
MissingField_TypeDefault(f) == Some(IF f.ty = "String" THEN <<>> ELSE <<"0">>)

\* What a field absent from the map gets: its declared default.
MissingField(f) == f.default

\* serde_json::from_value::<T>(Value::Object(map)): the entries are visited
\* first (an entry that names no field is skipped), then the missing fields
\* are filled from their defaults.
from_value(T, map) ==
    LET ty == TypeOf(T)
        present == (DOMAIN ty) \cap (DOMAIN map)
        absent == (DOMAIN ty) \ (DOMAIN map)
    IN  IF \E f \in present : ~DecodeField(ty[f].ty, map[f]).some
        THEN [ok |-> FALSE, err |-> "invalid type"]
        ELSE IF \E f \in absent : ~MissingField(ty[f]).some
        THEN [ok |-> FALSE, err |-> "missing field"]
        ELSE [ok |-> TRUE,
              val |-> [f \in DOMAIN ty |->
                          IF f \in present
                          THEN DecodeField(ty[f].ty, map[f]).val
                          ELSE MissingField(ty[f]).val]]

(***************************************************************************)
(* Inputs.                                                                 *)
(***************************************************************************)
\* An OS argument: valid Unicode with its text, or not valid Unicode.
Arg(s) == [unicode |-> TRUE, s |-> s]
NonUnicodeArg == [unicode |-> FALSE]

ProgramName == Arg(<<"a", "p", "p">>)

File(content) == [state |-> "ok", content |-> content]
NoFile == [state |-> "missing", content |-> <<>>]
\* A file that is there (it holds `port = 80`) but cannot be read.
UnreadableFile ==
    [state |-> "unreadable", content |-> <<"p", "o", "r", "t", " ", "=", " ", "8", "0", "\n">>]

\* The lines, each ended by "\n".
RECURSIVE JoinLines(_)
JoinLines(ls) ==
    IF ls = <<>> THEN <<>> ELSE Head(ls) \o <<"\n">> \o JoinLines(Tail(ls))

\* End-to-end inputs.
PipeTokens ==
    { Arg(<<"-", "-", "p", "o", "r", "t">>),
      Arg(<<"-", "-", "c", "r", "e", "d", "_", "f", "i", "l", "e">>),
      Arg(<<"-", "-", "r", "e", "t", "r", "i", "e", "s">>),
      Arg(<<"5">>),
      Arg(<<"x">>),
      NonUnicodeArg }

PipeLines ==
    { <<"c", "r", "e", "d", "_", "f", "i", "l", "e", " ", "=", " ", "'", "c", "'">>,
      <<"r", "e", "t", "r", "i", "e", "s", "=", "7">>,
      <<"p", "o", "r", "t", " ", "=", " ", "8", "0">>,
      <<"c", "r", "e", "d", "_", "f", "i", "l", "e", "=", "3", ".", "1", "4">> }

PipeFiles ==
    {NoFile, UnreadableFile}
    \cup {File(JoinLines(ls)) : ls \in SeqsUpTo(PipeLines, MaxPipeLines)}

\* Argument-scan inputs.
ArgTokens ==
    { Arg(<<"-", "-", "k">>),
      Arg(<<"-", "-", "j">>),
      Arg(<<"-", "-", "'", "k", "'">>),
      Arg(<<"-", "-">>),
      Arg(<<"v">>),
      Arg(<<"\"", "w", "\"">>),
      Arg(<<"-", "v">>),
      NonUnicodeArg }

\* File-extractor inputs.
DotenvLines ==
    { <<>>,
      <<" ", " ">>,
      <<"n", "o", "v", "a", "l", "u", "e">>,
      <<"a", "=", "b", "=", "c">>,
      <<"=", "v">>,
      <<"k", "=">>,
      <<"k", "=", "'", "'">>,
      <<"k", " ", "=", " ", "v">>,
      <<"k", "=", "'", "w", "'">>,
      <<"j", "=", "\"", "v", "\"", "\r">> }

\* key1 = 'value1'\nbadline\nkey2=value2\n\n, a file with no final "\n", and a
\* file whose first and last lines set the same key around a malformed line.
DotenvExtra ==
    { File(<<"k", "e", "y", "1", " ", "=", " ", "'", "v", "a", "l", "u", "e", "1", "'", "\n",
             "b", "a", "d", "l", "i", "n", "e", "\n",
             "k", "e", "y", "2", "=", "v", "a", "l", "u", "e", "2", "\n", "\n">>),
      File(<<"k", "=", "v", "\n", "j", "=", "w">>),
      File(<<"k", " ", "=", " ", "v", "\n", "b", "a", "d", "l", "i", "n", "e", "\n",
             "k", "=", "'", "w", "'", "\n">>) }

DotenvFiles ==
    {NoFile, UnreadableFile} \cup DotenvExtra
    \cup {File(JoinLines(ls)) : ls \in SeqsUpTo(DotenvLines, MaxLines)}

\* Inputs of the string functions.
NumAlphabet == {"-", "+", "0", "1", "7", ".", "e"}
LineAlphabet == {"k", "=", "'", "\"", " "}

CuratedStrings ==
    { <<"t", "r", "u", "e">>, <<"f", "a", "l", "s", "e">>, <<"T", "r", "u", "e">>,
      <<"i", "n", "f">>, <<"-", "i", "n", "f">>, <<"N", "a", "N">>,
      <<"i", "n", "f", "i", "n", "i", "t", "y">>,
      U64Max,
      <<"1", "8", "4", "4", "6", "7", "4", "4", "0", "7", "3", "7", "0", "9", "5", "5", "1",
        "6", "1", "6">>,
      <<"-">> \o I64MinAbs,
      <<"-", "9", "2", "2", "3", "3", "7", "2", "0", "3", "6", "8", "5", "4", "7", "7", "5",
        "8", "0", "9">>,
      <<"3", ".", "1", "4">>, <<"4", "2">>, <<"-", "7">>, <<"0", "7">>, <<"a", "b", "c">>,
      <<"1", "e", "3", "0", "9">>,
      <<"1", ".", "7", "9", "7", "6", "9", "3", "1", "3", "4", "8", "6", "2", "3", "1", "5",
        "7", "e", "3", "0", "8">>,
      <<"1", ".", "7", "9", "7", "6", "9", "3", "1", "3", "4", "8", "6", "2", "3", "1", "5",
        "9", "e", "3", "0", "8">>,
      cred_file, server_url,
      <<"k", " ", "=", " ", "'", "'", "v", "'", "'">>,
      <<"k", " ", "=", " ", "'", "\"", "v", "\"", "'">>,
      <<"k", " ", "=", " ", "\"", "'", "v", "'", "\"">>,
      <<"k", "e", "y", "1", " ", "=", " ", "'", "v", "a", "l", "u", "e", "1", "'">> }

StrInputs ==
    SeqsUpTo(NumAlphabet, MaxNumLen) \cup SeqsUpTo(LineAlphabet, MaxLineLen)
    \cup CuratedStrings

(***************************************************************************)
(* State machine.                                                          *)
(***************************************************************************)
\* The values of the variables a call has not written yet.
Fresh ==
    /\ dotenv = EmptyMap /\ args = <<>> /\ ai = 1 /\ kv = EmptyMap /\ kcache = None
    /\ merged = EmptyMap /\ value = EmptyMap /\ result = None /\ ret = None

\* from_env::<T>() is called: any file, any arguments, any of the types.
Init ==
    /\ pc = "start"
    /\ dotenvFile \in PipeFiles
    /\ argv \in {<<ProgramName>> \o a : a \in SeqsUpTo(PipeTokens, MaxPipeArgs)}
    /\ target \in TargetTypes
    /\ v = <<>>
    /\ Fresh

\* let mut dotenv = kv_from_dotenv();
CallKvFromDotenv ==
    /\ pc = "start"
    /\ dotenv' = kv_from_dotenv(dotenvFile)
    /\ pc' = "env"
    /\ UNCHANGED <<dotenvFile, argv, target, args, ai, kv, kcache, merged, value,
                   result, v, ret>>

\* let args: Vec<String> = env::args().skip(1).collect();
\* env::args() panics on an argument that is not valid Unicode.
CollectArgs ==
    /\ pc = "env"
    /\ \/ /\ \E j \in 1..Len(argv) : ~argv[j].unicode
          /\ pc' = "panicked"
          /\ UNCHANGED <<args, ai, kv, kcache>>
       \/ /\ \A j \in 1..Len(argv) : argv[j].unicode
          /\ args' = [j \in 1..(Len(argv) - 1) |-> argv[j + 1].s]
          /\ ai' = 1
          /\ kv' = EmptyMap
          /\ kcache' = None
          /\ pc' = "scan"
    /\ UNCHANGED <<dotenvFile, argv, target, dotenv, merged, value, result, v, ret>>

\* One turn of the loop on a token that starts with "--".
ScanKey ==
    /\ pc = "scan"
    /\ ai <= Len(args)
    /\ StartsWith(args[ai], <<"-", "-">>)
    /\ kv' = KvAfterKey(kv, kcache)
    /\ kcache' = Some(KeyOfArg(args[ai]))
    /\ ai' = ai + 1
    /\ UNCHANGED <<pc, dotenvFile, argv, target, dotenv, args, merged, value, result,
                   v, ret>>

\* One turn of the loop on any other token.
ScanValue ==
    /\ pc = "scan"
    /\ ai <= Len(args)
    /\ ~StartsWith(args[ai], <<"-", "-">>)
    /\ kv' = KvAfterValue(kv, kcache, args[ai])
    /\ kcache' = KcacheAfterValue(kcache)
    /\ ai' = ai + 1
    /\ UNCHANGED <<pc, dotenvFile, argv, target, dotenv, args, merged, value, result,
                   v, ret>>

\* After the loop: a key still pending is committed as a flag; kv is returned.
ScanEnd ==
    /\ pc = "scan"
    /\ ai > Len(args)
    /\ kv' = KvAfterKey(kv, kcache)
    /\ pc' = "merge"
    /\ UNCHANGED <<dotenvFile, argv, target, dotenv, args, ai, kcache, merged, value,
                   result, v, ret>>

\* for (k, v) in env { dotenv.insert(k, v); } dotenv
Merge ==
    /\ pc = "merge"
    /\ merged' = kv_from_dotenv_and_env(dotenv, kv)
    /\ pc' = "json"
    /\ UNCHANGED <<dotenvFile, argv, target, dotenv, args, ai, kv, kcache, value,
                   result, v, ret>>

\* let value = kv_to_json_value(kv);
CallKvToJsonValue ==
    /\ pc = "json"
    /\ value' = kv_to_json_value(merged)
    /\ pc' = "decode"
    /\ UNCHANGED <<dotenvFile, argv, target, dotenv, args, ai, kv, kcache, merged,
                   result, v, ret>>

\* serde_json::from_value(value)
CallFromValue ==
    /\ pc = "decode"
    /\ result' = from_value(target, value)
    /\ pc' = "done"
    /\ UNCHANGED <<dotenvFile, argv, target, dotenv, args, ai, kv, kcache, merged,
                   value, v, ret>>

Next ==
    \/ CallKvFromDotenv
    \/ CollectArgs
    \/ ScanKey
    \/ ScanValue
    \/ ScanEnd
    \/ Merge
    \/ CallKvToJsonValue
    \/ CallFromValue

Spec == Init /\ [][Next]_vars

\* kv_from_env() alone, on a wider set of argument lists.
InitArgs ==
    /\ pc = "env"
    /\ dotenvFile = NoFile
    /\ argv \in {<<ProgramName>> \o a : a \in SeqsUpTo(ArgTokens, MaxArgs)}
    /\ target = "Constants"
    /\ v = <<>>
    /\ Fresh

NextArgs == CollectArgs \/ ScanKey \/ ScanValue \/ ScanEnd

SpecArgs == InitArgs /\ [][NextArgs]_vars

\* kv_from_dotenv() alone, on a wider set of files.
InitDotenv ==
    /\ pc = "start"
    /\ dotenvFile \in DotenvFiles
    /\ argv = <<ProgramName>>
    /\ target = "Constants"
    /\ v = <<>>
    /\ Fresh

NextDotenv == CallKvFromDotenv

SpecDotenv == InitDotenv /\ [][NextDotenv]_vars

\* The string functions, each applied to one string.
InitStr ==
    /\ pc = "call"
    /\ dotenvFile = NoFile
    /\ argv = <<ProgramName>>
    /\ target = "Constants"
    /\ v \in StrInputs
    /\ Fresh

CallVToJsonValue ==
    /\ pc = "call"
    /\ ret' = v_to_json_value(v)
    /\ pc' = "coerced"
    /\ UNCHANGED <<dotenvFile, argv, target, dotenv, args, ai, kv, kcache, merged,
                   value, result, v>>

CallFilterMap ==
    /\ pc = "call"
    /\ ret' = FilterMapLine(v)
    /\ pc' = "filtered"
    /\ UNCHANGED <<dotenvFile, argv, target, dotenv, args, ai, kv, kcache, merged,
                   value, result, v>>

NextStr == CallVToJsonValue \/ CallFilterMap

SpecStr == InitStr /\ [][NextStr]_vars

(***************************************************************************)
(* Properties.  Their vocabulary is restated here from the specification's *)
(* wording, apart from the operators above.                                *)
(***************************************************************************)
\* The four kinds of coerced value the specification speaks of.
Kind(x) ==
    IF x.tag = "Bool" THEN "Boolean"
    ELSE IF x.tag = "String" THEN "String"
    ELSE IF x.kind = "Float" THEN "Float"
    ELSE "Integer"

\* A token that begins with the two characters "--".
IsKeyTok(a) == Len(a) >= 2 /\ a[1] = "-" /\ a[2] = "-"

\* Quote stripping as the extractors do it.
Unquoted(s) == TrimMatches(TrimMatches(s, SQ), DQ)

\* The key a `--` token yields.
KeyAt(j) == Unquoted(SubSeq(args[j], 3, Len(args[j])))

KeyToks == {j \in 1..Len(args) : IsKeyTok(args[j])}

\* The last `--` token that yields k.
LastKeyTok(k) ==
    CHOOSE j \in KeyToks :
        KeyAt(j) = k /\ \A i \in KeyToks : KeyAt(i) = k => i <= j

Merged == pc \in {"json", "decode", "done"}

\* C1: the merged mapping has the keys of the file mapping and of the
\* argument mapping; an argument value wins on a collision and a key only
\* the file has keeps the file's value.
C1_PrecedenceMerge ==
    Merged =>
        /\ DOMAIN merged = (DOMAIN dotenv) \cup (DOMAIN kv)
        /\ \A k \in DOMAIN kv : merged[k] = kv[k]
        /\ \A k \in (DOMAIN dotenv) \ (DOMAIN kv) : merged[k] = dotenv[k]

\* A merge with a collision on differing values and a key only the file has.
C1_Witness ==
    /\ pc = "json"
    /\ \E k \in (DOMAIN dotenv) \cap (DOMAIN kv) : dotenv[k] # kv[k]
    /\ (DOMAIN dotenv) \ (DOMAIN kv) # {}

\* C2: when the scan returns, the keys of kv are exactly the quote-stripped
\* keys of the `--` tokens, and each key's value is decided by the last `--`
\* token yielding it: the quote-stripped next token if there is one and it
\* is no `--` token, "true" otherwise.
C2_ArgumentScan ==
    pc = "merge" =>
        /\ DOMAIN kv = {KeyAt(j) : j \in KeyToks}
        /\ \A k \in DOMAIN kv :
              LET last == LastKeyTok(k)
              IN  kv[k] = IF last < Len(args) /\ ~IsKeyTok(args[last + 1])
                          THEN Unquoted(args[last + 1])
                          ELSE TrueStr

\* A key given first with a value and later as a bare flag: the flag wins.
C2_Witness ==
    /\ pc = "merge"
    /\ \E i, j \in KeyToks :
          /\ i + 1 < j
          /\ KeyAt(i) = KeyAt(j)
          /\ ~IsKeyTok(args[i + 1])
          /\ j = Len(args)
          /\ kv[KeyAt(j)] = TrueStr
          /\ Unquoted(args[i + 1]) # TrueStr

\* C3: a value token taken while no key is pending leaves kv and the
\* pending-key slot as they were, and after any value token the slot is
\* empty.
C3_OrphanDiscarded ==
    [][(pc = "scan" /\ ai <= Len(args) /\ ~IsKeyTok(args[ai]))
          => /\ ~kcache'.some
             /\ ~kcache.some => (kv' = kv /\ kcache' = kcache)]_vars

\* A value token was just taken at the start of the list or right after
\* another value token.
C3_Witness ==
    /\ pc = "scan"
    /\ ai > 1
    /\ ~IsKeyTok(args[ai - 1])
    /\ (ai = 2 \/ ~IsKeyTok(args[ai - 2]))
    /\ ~kcache.some
    /\ ai <= Len(args)

\* The Rust value a coerced value carries.
Payload(x) ==
    IF x.tag = "Bool" THEN x.b
    ELSE IF x.tag = "String" THEN x.s
    ELSE IF x.kind = "Float" THEN <<x.neg, x.mant, x.e>>
    ELSE x.digits

\* C4: when from_env succeeds, a field named in the merged mapping holds the
\* coerced merged value and every other field holds its declared default.
C4_DefaultsForAbsent ==
    (pc = "done" /\ result.ok) =>
        \A f \in DOMAIN TypeOf(target) :
            IF f \in DOMAIN merged
            THEN result.val[f] = Payload(v_to_json_value(merged[f]))
            ELSE /\ TypeOf(target)[f].default.some
                 /\ result.val[f] = TypeOf(target)[f].default.val

\* cred_file (default "credentials.json") and retries (default 0), no file,
\* arguments --retries 5: {cred_file: "credentials.json", retries: 5}.
C4_Witness ==
    /\ pc = "done"
    /\ target = "Settings"
    /\ dotenvFile.state = "missing"
    /\ args = << <<"-", "-", "r", "e", "t", "r", "i", "e", "s">>, <<"5">> >>
    /\ result.ok
    /\ result.val = (S_cred_file :> cred_file) @@ (S_retries :> <<"5">>)

\* Whether a coerced value can populate a field of the declared type.
Compatible(ty, x) ==
    IF ty = "String" THEN Kind(x) = "String"
    ELSE x.tag = "Number" /\ x.kind = "PosInt"

DecodingMustFail ==
    \/ \E f \in (DOMAIN TypeOf(target)) \ (DOMAIN merged) :
          ~TypeOf(target)[f].default.some
    \/ \E f \in (DOMAIN TypeOf(target)) \cap (DOMAIN merged) :
          ~Compatible(TypeOf(target)[f].ty, v_to_json_value(merged[f]))

\* C5: decoding failure is the only failure, and it is exact: no file and
\* no argument list makes a step before the decoding fail, and from_env
\* returns an error exactly when a required field is absent or a present
\* value is incompatible with its field's type.
C5_OnlyDecodingFails ==
    /\ pc # "panicked"
    /\ pc = "done" => (~result.ok <=> DecodingMustFail)

\* The part of C5 about the calls that return: the error is exact.
C5_ExactWhenReturned ==
    pc = "done" => (~result.ok <=> DecodingMustFail)

\* C6: a `.env` file that is missing or cannot be read gives the empty file
\* mapping, the merged mapping is then the argument mapping, and from_env
\* returns what it returns for an empty file.
C6_AbsentFileIsEmpty ==
    dotenvFile.state # "ok" =>
        /\ pc # "start" => dotenv = EmptyMap
        /\ Merged => merged = kv
        /\ pc = "done" =>
              result = from_value(target,
                          kv_to_json_value(
                              kv_from_dotenv_and_env(kv_from_dotenv(File(<<>>)), kv)))

\* An unreadable file holding `port = 80`, arguments --port 5: port is 5.
C6_Witness ==
    /\ pc = "done"
    /\ dotenvFile.state = "unreadable"
    /\ target = "Server"
    /\ merged = (S_port :> <<"5">>)
    /\ result.ok
    /\ result.val[S_port] = <<"5">>

\* The value substring of a line with one "=": what follows it, trimmed.
RawValue(l) ==
    LET t == Trim(l)
        eq == CHOOSE j \in 1..Len(t) : t[j] = "="
    IN  Trim(SubSeq(t, eq + 1, Len(t)))

RawKey(l) ==
    LET t == Trim(l)
        eq == CHOOSE j \in 1..Len(t) : t[j] = "="
    IN  Trim(SubSeq(t, 1, eq - 1))

\* One layer of surrounding quotes removed, if there is a matching pair.
StripOneLayer(s) ==
    IF Len(s) >= 2 /\ s[1] \in {SQ, DQ} /\ s[Len(s)] = s[1]
    THEN SubSeq(s, 2, Len(s) - 1)
    ELSE s

Rep(c, n) == [j \in 1..n |-> c]

\* C7 as stated: the stored value is the trimmed value substring with one
\* layer of surrounding quotes removed.
C7_OneLayerOnly ==
    (pc = "filtered" /\ ret.some) => ret.val[2] = StripOneLayer(RawValue(v))

\* C7 as amended: the stored value is the trimmed value substring without
\* its leading and trailing single quotes and then without its leading and
\* trailing double quotes, however many there are and whether or not they
\* pair up: raw = '..' "..' val "..' '..' where val neither starts nor ends
\* with a double quote, and starts (ends) with a single quote only behind
\* (before) a removed double quote.
C7_StripsEveryQuote ==
    (pc = "filtered" /\ ret.some) =>
        LET raw == RawValue(v)
            val == ret.val[2]
            n == Len(raw) - Len(val)
        IN  /\ val # <<>>
            /\ n >= 0
            /\ \E a, b, c \in 0..n :
                  /\ a + b + c <= n
                  /\ raw = Rep(SQ, a) \o Rep(DQ, b) \o val \o Rep(DQ, c)
                               \o Rep(SQ, n - a - b - c)
                  /\ val[1] # DQ /\ val[Len(val)] # DQ
                  /\ b = 0 => val[1] # SQ
                  /\ c = 0 => val[Len(val)] # SQ

\* A value in two layers of single quotes is stored without either layer.
C7_Witness ==
    /\ pc = "filtered"
    /\ v = <<"k", " ", "=", " ", "'", "'", "v", "'", "'">>
    /\ ret = Some(<< <<"k">>, <<"v">> >>)

\* A line contributes a pair: trimmed it is non-empty and has exactly one
\* "=", and its trimmed key and its trimmed, unquoted value are non-empty.
Accepted(l) ==
    LET t == Trim(l)
    IN  /\ t # <<>>
        /\ Cardinality({j \in 1..Len(t) : t[j] = "="}) = 1
        /\ RawKey(l) # <<>>
        /\ Unquoted(RawValue(l)) # <<>>

\* C8: the file mapping holds exactly the keys of the accepted lines, each
\* with the value of the last accepted line that has the key; every other
\* line is dropped and changes nothing.
C8_LineFiltering ==
    (pc = "env" /\ dotenvFile.state = "ok") =>
        LET ls == StrLines(dotenvFile.content)
            acc == {j \in 1..Len(ls) : Accepted(ls[j])}
        IN  /\ DOMAIN dotenv = {RawKey(ls[j]) : j \in acc}
            /\ \A k \in DOMAIN dotenv :
                  LET last == CHOOSE j \in acc :
                                 /\ RawKey(ls[j]) = k
                                 /\ \A i \in acc : RawKey(ls[i]) = k => i <= j
                  IN  dotenv[k] = Unquoted(RawValue(ls[last]))

\* Two accepted lines for one key around a dropped line: the later value.
C8_Witness ==
    /\ pc = "env"
    /\ dotenvFile.state = "ok"
    /\ LET ls == StrLines(dotenvFile.content)
       IN  \E i, j, l \in 1..Len(ls) :
              /\ i < j /\ j < l
              /\ Accepted(ls[i]) /\ ~Accepted(ls[j]) /\ Accepted(ls[l])
              /\ RawKey(ls[i]) = RawKey(ls[l])
              /\ Unquoted(RawValue(ls[i])) # Unquoted(RawValue(ls[l]))
              /\ dotenv[RawKey(ls[l])] = Unquoted(RawValue(ls[l]))

\* C9: the coercion returns one tagged value for every string, by a fixed
\* order of trials: Boolean exactly for "true" and "false"; else Integer if
\* the string parses as u64, else Integer if it parses as i64 ("07" is 7);
\* else Float if it parses as an f64 that is finite; else String with the
\* string unchanged (so for NaN and the infinities).
C9_CoercionOrder ==
    pc = "coerced" =>
        /\ Kind(ret) \in {"Boolean", "Integer", "Float", "String"}
        /\ Kind(ret) = "Boolean" <=> v \in {TrueStr, <<"f", "a", "l", "s", "e">>}
        /\ v = TrueStr => ret.b
        /\ v = <<"f", "a", "l", "s", "e">> => ~ret.b
        /\ v \notin {TrueStr, <<"f", "a", "l", "s", "e">>} =>
              IF ParseU64(v).ok
              THEN Kind(ret) = "Integer" /\ ret.kind = "PosInt"
                   /\ ret.digits = ParseU64(v).digits
              ELSE IF ParseI64(v).ok
              THEN Kind(ret) = "Integer" /\ ret.digits = ParseI64(v).digits
                   /\ (ret.kind = "NegInt" <=> ParseI64(v).neg)
              ELSE IF ParseF64(v).ok /\ ParseF64(v).kind = "num"
              THEN Kind(ret) = "Float" /\ ret.mant = ParseF64(v).mant
                   /\ ret.e = ParseF64(v).e /\ ret.neg = ParseF64(v).neg
              ELSE ret = ValueString(v)
        /\ v = <<"0", "7">> => Kind(ret) = "Integer" /\ ret.digits = <<"7">>
        /\ v \in {<<"N", "a", "N">>, <<"i", "n", "f">>, <<"-", "i", "n", "f">>,
                  <<"i", "n", "f", "i", "n", "i", "t", "y">>,
                  <<"1", "e", "3", "0", "9">>} => ret = ValueString(v)

\* "NaN" parses as an f64 that is not finite and comes back as a String.
C9_Witness ==
    /\ pc = "coerced"
    /\ v = <<"N", "a", "N">>
    /\ ParseF64(v).ok
    /\ ret = ValueString(v)

\* C10: when the merged raw value of a key naming a String field coerces
\* to a Boolean, an Integer or a Float, from_env returns an error, default
\* or no default.
C10_StringFieldRejectsScalars ==
    pc = "done" =>
        \A f \in (DOMAIN TypeOf(target)) \cap (DOMAIN merged) :
            (TypeOf(target)[f].ty = "String"
             /\ Kind(v_to_json_value(merged[f])) \in {"Boolean", "Integer", "Float"})
                => ~result.ok

\* --cred_file given as a bare flag to a type whose cred_file has a default.
C10_Witness ==
    /\ pc = "done"
    /\ target = "Constants"
    /\ TypeOf(target)[S_cred_file].default.some
    /\ S_cred_file \in DOMAIN merged
    /\ merged[S_cred_file] = TrueStr
    /\ ~result.ok

=============================================================================
